---- MODULE Spec2Model ----
(***************************************************************************)
(* FileSorterPro (src/filesorter.py): classification of files and folders  *)
(* of one working directory and the run that moves them into category      *)
(* directories.                                                            *)
(*                                                                         *)
(* A name is a sequence of tokens (the alphabet of the model: a token      *)
(* stands for a run of characters, "." for the dot).  A path is a sequence *)
(* of names relative to the working directory; <<>> is the working         *)
(* directory itself.  The file system is a function from the paths that    *)
(* exist to "file" or "dir".                                               *)
(***************************************************************************)
EXTENDS Integers, Sequences, FiniteSets, TLC

VARIABLES
    cfg,          \* [table, rules]: folder_names and filename_sorting_rules
    fs,           \* the file system under the working directory
    pc,           \* position of the run in the __main__ block
    run,          \* number of the current run
    files,        \* files still to be visited by move_files
    folders,      \* folders still to be visited by move_folders_based_on_content
    log,          \* the log lines emitted so far
    fs0,          \* the file system when the current run enumerated it
    classified,   \* folder path -> classification computed in the current run
    op,           \* the classifier last applied to the drawn input
    arg_name,     \* drawn input: a file name
    arg_children, \* drawn input: the direct children of a folder
    out,          \* result of the classifier applied
    failures      \* renames the environment has made fail so far

vars == <<cfg, fs, pc, run, files, folders, log, fs0, classified,
          op, arg_name, arg_children, out, failures>>

runVars == <<fs, pc, run, files, folders, log, fs0, classified, failures>>
fnVars == <<op, arg_name, arg_children, out>>

----------------------------------------------------------------------------
(* Bounds *)

MaxNameLen == 4
MaxChildren == 4
MaxRuns == 2
MaxFailures == 1

----------------------------------------------------------------------------
(* Category names *)

Audio == <<"Audio">>
Compressed == <<"Compressed">>
Documents == <<"Documents">>
Others == <<"Others">>
Photos == <<"Photos">>
Scans == <<"Scans">>

\* The outcome of a dictionary subscript with a missing key.
KeyError == <<"#KeyError">>
\* No result yet.
None == <<"#None">>

\* The rule table of __main__, reduced to four of its thirteen categories.
folder_names ==
    << [folder |-> Audio,      extensions |-> {<<"mp3">>, <<"wav">>}],
       [folder |-> Compressed, extensions |-> {<<"tar", ".", "gz">>, <<"gz">>}],
       [folder |-> Documents,  extensions |-> {<<"txt">>, <<"pdf">>}],
       [folder |-> Others,     extensions |-> {<<"NONE">>}] >>

filename_sorting_rules ==
    << [folder |-> Photos, patterns |-> << <<"IMG_">> >>] >>

MainConfig == [table |-> folder_names, rules |-> filename_sorting_rules]

\* Other configurations the functions are applied to: two filename rules in
\* either order (both list Others in the table).
TwoRulesConfig ==
    [table |-> folder_names,
     rules |-> << [folder |-> Photos, patterns |-> << <<"IMG_">> >>],
                  [folder |-> Scans,  patterns |-> << <<"a">>, <<"IMG_", "a">> >>] >>]

TwoRulesSwappedConfig ==
    [table |-> folder_names,
     rules |-> << [folder |-> Scans,  patterns |-> << <<"a">>, <<"IMG_", "a">> >>],
                  [folder |-> Photos, patterns |-> << <<"IMG_">> >>] >>]

\* A rule table that does not list Others.
NoOthersConfig ==
    [table |-> SubSeq(folder_names, 1, Len(folder_names) - 1),
     rules |-> filename_sorting_rules]

Configs == {MainConfig, TwoRulesConfig, TwoRulesSwappedConfig}
AnyConfigs == Configs \cup {NoOthersConfig}

----------------------------------------------------------------------------
(* pathlib and str *)

\* str.lower on one token.
lower_token(t) ==
    CASE t = "MP3"  -> "mp3"
      [] t = "TXT"  -> "txt"
      [] t = "NONE" -> "none"
      [] t = "IMG_" -> "img_"
      [] OTHER      -> t

\* str.lower
lower(s) == [i \in 1..Len(s) |-> lower_token(s[i])]

\* str.rfind('.'), 1-based, 0 when there is no dot.
rfind_dot(name) ==
    LET dots == {i \in 1..Len(name) : name[i] = "."}
    IN IF dots = {} THEN 0 ELSE CHOOSE i \in dots : \A j \in dots : j <= i

\* PurePath.suffix: the last dot and what follows it, when the dot is neither
\* the first nor the last character of the name.
suffix(name) ==
    LET i == rfind_dot(name)
    IN IF 1 < i /\ i < Len(name) THEN SubSeq(name, i, Len(name)) ELSE <<>>

\* PurePath.stem
stem(name) ==
    LET i == rfind_dot(name)
    IN IF 1 < i /\ i < Len(name) THEN SubSeq(name, 1, i - 1) ELSE name

\* str.startswith
startswith(s, pattern) ==
    Len(pattern) <= Len(s) /\ SubSeq(s, 1, Len(pattern)) = pattern

\* Mutant: the extension is looked up as written, not in lower case.
file_extension_as_written(name) ==
    LET sfx == suffix(name)
    IN IF sfx = <<>> THEN <<>> ELSE Tail(sfx)

\* file_name.suffix[1:].lower()
file_extension(name) ==
    LET sfx == suffix(name)
    IN lower(IF sfx = <<>> THEN <<>> ELSE Tail(sfx))

\* dict.get(key, default)
dict_get(d, key, default) == IF key \in DOMAIN d THEN d[key] ELSE default

----------------------------------------------------------------------------
(* Classification *)

RECURSIVE map_extensions_loop(_, _, _)
map_extensions_loop(table, i, extension_map) ==
    IF i > Len(table) THEN extension_map
    ELSE map_extensions_loop(table, i + 1,
            [e \in DOMAIN extension_map \cup table[i].extensions |->
                IF e \in table[i].extensions THEN table[i].folder
                ELSE extension_map[e]])

\* extension -> folder; a later entry of the table overwrites an earlier one.
map_extensions_to_folder(table) ==
    map_extensions_loop(table, 1, [e \in {} |-> None])

determine_target_folder(file_name, rules, extension_map, default_folder) ==
    LET matching == {i \in 1..Len(rules) :
                        \E j \in 1..Len(rules[i].patterns) :
                            startswith(stem(file_name), rules[i].patterns[j])}
    IN IF matching # {}
       THEN rules[CHOOSE i \in matching : \A k \in matching : i <= k].folder
       ELSE dict_get(extension_map, file_extension(file_name), default_folder)

combine_categories(table, rules) ==
    {table[i].folder : i \in 1..Len(table)} \cup {rules[i].folder : i \in 1..Len(rules)}

\* Mutant: exactly half is enough.
at_least_half(predominant_count, total_files) == 2 * predominant_count >= total_files

\* (predominant_count / total_files) > 0.5
exceeds_half(predominant_count, total_files) == 2 * predominant_count > total_files

\* The outcomes classify_folder_by_content can have on the direct children
\* `children` of a folder (records [name, kind]).  max() over the items of a
\* dictionary built from a set returns the first maximal item in an iteration
\* order the program does not fix: every maximal category is a possible
\* predominant_category.
classify_folder_by_content(children, extension_map, all_categories) ==
    LET child_files == {c \in children : c.kind = "file"}
        total_files == Cardinality(child_files)
        ext_category(c) == dict_get(extension_map, file_extension(c.name), None)
        mapped == {c \in child_files : ext_category(c) # None}
        unmapped == child_files \ mapped
        keys == all_categories \cup {ext_category(c) : c \in mapped}
        file_counts == [k \in keys |->
            Cardinality({c \in mapped : ext_category(c) = k})
            + (IF k = Others THEN Cardinality(unmapped) ELSE 0)]
        predominant == {k \in keys : \A k2 \in keys : file_counts[k2] <= file_counts[k]}
    IN IF unmapped # {} /\ Others \notin all_categories THEN {KeyError}
       ELSE IF total_files = 0 THEN {Others}
       ELSE {IF exceeds_half(file_counts[k], total_files) THEN k ELSE Others :
                k \in predominant}

----------------------------------------------------------------------------
(* Inputs the classifiers are applied to *)

Alphabet == {"IMG_", "a", ".", "mp3", "MP3", "txt", "xyz", "NONE"}

RECURSIVE NamesOfLen(_)
NamesOfLen(n) ==
    IF n = 0 THEN {<<>>}
    ELSE {Append(s, t) : s \in NamesOfLen(n - 1), t \in Alphabet}

FileNames == UNION {NamesOfLen(n) : n \in 1..MaxNameLen}

ChildPool ==
    { [name |-> <<"m1", ".", "mp3">>, kind |-> "file"],
      [name |-> <<"m2", ".", "mp3">>, kind |-> "file"],
      [name |-> <<"m3", ".", "MP3">>, kind |-> "file"],
      [name |-> <<"t1", ".", "txt">>, kind |-> "file"],
      [name |-> <<"t2", ".", "TXT">>, kind |-> "file"],
      [name |-> <<"u1", ".", "xyz">>, kind |-> "file"],
      [name |-> <<"u2">>,             kind |-> "file"],
      [name |-> <<"d", ".", "mp3">>,  kind |-> "dir"] }

FolderContents == {c \in SUBSET ChildPool : Cardinality(c) <= MaxChildren}

----------------------------------------------------------------------------
(* The file system *)

\* downloads_path.name
WorkingDirName == <<"Downloads">>

EmptyFs == [p \in {} |-> "file"]

exists(f, p) == p = <<>> \/ p \in DOMAIN f
is_file(f, p) == p \in DOMAIN f /\ f[p] = "file"
is_dir(f, p) == p = <<>> \/ (p \in DOMAIN f /\ f[p] = "dir")

path_name(p) == p[Len(p)]
path_parent(p) == SubSeq(p, 1, Len(p) - 1)
parent_name(p) == IF Len(p) = 1 THEN WorkingDirName ELSE p[Len(p) - 1]

\* Path.iterdir
iterdir(f, d) == {p \in DOMAIN f : Len(p) = Len(d) + 1 /\ path_parent(p) = d}

\* The direct children of folder d as the folder classifier sees them.
children_of(f, d) == {[name |-> path_name(p), kind |-> f[p]] : p \in iterdir(f, d)}

\* p and everything below it.
subtree(f, p) == {q \in DOMAIN f : Len(q) >= Len(p) /\ SubSeq(q, 1, Len(p)) = p}

\* Path.mkdir of a path that does not exist.
mkdir(f, p) == [q \in DOMAIN f \cup {p} |-> IF q = p THEN "dir" ELSE f[q]]

\* Mutant: the entry is copied to dst and left at src.
rename_keeping_source(f, src, dst) ==
    LET moved == subtree(f, src)
        rest(q, base) == SubSeq(q, Len(base) + 1, Len(q))
        arrived == {dst \o rest(q, src) : q \in moved}
    IN [q \in (DOMAIN f) \cup arrived |->
            IF q \in arrived THEN f[src \o rest(q, dst)] ELSE f[q]]

\* Path.rename that succeeds: src and all below it now live at dst.
rename(f, src, dst) ==
    LET moved == subtree(f, src)
        rest(q, base) == SubSeq(q, Len(base) + 1, Len(q))
        arrived == {dst \o rest(q, src) : q \in moved}
    IN [q \in ((DOMAIN f) \ moved) \cup arrived |->
            IF q \in arrived THEN f[src \o rest(q, dst)] ELSE f[q]]

\* Mutant: the destination is never found to exist.
target_never_exists(f, target_path) == FALSE

\* target_path.exists() of move_files and of move_folders_based_on_content
target_exists(f, target_path) == exists(f, target_path)

----------------------------------------------------------------------------
(* The run of the __main__ block *)

\* A log line: the run that emitted it, its level, what it reports ("moved",
\* "failed", "collision", "category", "already" for an entry; "organized" and
\* "raised_..." from the try/except of __main__) and the entry it names.
Line(level, event, entry) ==
    [run |-> run, level |-> level, event |-> event, entry |-> entry]

\* The names create_folders makes directories for, in its order.
create_folders_names(table, rules) ==
    [i \in 1..Len(table) |-> table[i].folder] \o [i \in 1..Len(rules) |-> rules[i].folder]

\* mkdir(exist_ok=True) for each name in turn; it raises FileExistsError at the
\* first name that exists and is not a directory.
RECURSIVE create_folders(_, _, _)
create_folders(f, names, i) ==
    IF i > Len(names) THEN [fs |-> f, raised |-> FALSE]
    ELSE IF is_file(f, <<names[i]>>) THEN [fs |-> f, raised |-> TRUE]
    ELSE create_folders(IF exists(f, <<names[i]>>) THEN f ELSE mkdir(f, <<names[i]>>),
                        names, i + 1)

extension_map == map_extensions_to_folder(cfg.table)
all_categories == combine_categories(cfg.table, cfg.rules)

\* Mutant: no folder is recognised as a category folder.
never_category_folder(folder, categories) == FALSE

\* folder.name in all_categories
is_category_folder(folder, categories) == path_name(folder) \in categories

\* The folders the loop of move_folders_based_on_content may visit next.  The
\* order of the list is the order of iterdir, which the program does not fix:
\* any folder that is not a category folder may come next.  Category folders
\* are all treated alike (skipped with an info line), so their order among
\* themselves is fixed and only their position among the others varies.
next_folders(remaining, categories) ==
    LET category_folders == {f \in remaining : is_category_folder(f, categories)}
    IN (remaining \ category_folders)
       \cup (IF category_folders = {} THEN {}
             ELSE {CHOOSE f \in category_folders : TRUE})

\* Whether a rename the program attempts succeeds is the environment's choice
\* (permissions, a file in use); it makes at most MaxFailures renames fail.
RenameOutcomes == IF failures < MaxFailures THEN BOOLEAN ELSE {TRUE}

\* files, folders = get_files_and_folders(downloads_path)
GetFilesAndFolders ==
    /\ pc = "start"
    /\ files' = {p \in iterdir(fs, <<>>) : is_file(fs, p)}
    /\ folders' = {p \in iterdir(fs, <<>>) : is_dir(fs, p)}
    /\ fs0' = fs
    /\ classified' = [p \in {} |-> None]
    /\ pc' = "create_folders"
    /\ UNCHANGED <<cfg, fs, run, log, failures, fnVars>>

\* create_folders(...); an exception reaches the except clause of __main__.
CreateFolders ==
    /\ pc = "create_folders"
    /\ LET r == create_folders(fs, create_folders_names(cfg.table, cfg.rules), 1)
       IN /\ fs' = r.fs
          /\ IF r.raised
             THEN /\ pc' = "aborted"
                  /\ log' = log \cup {Line("error", "raised_create_folders", <<>>)}
             ELSE /\ pc' = "move_files"
                  /\ log' = log
    /\ UNCHANGED <<cfg, run, files, folders, fs0, classified, failures, fnVars>>

\* One iteration of the loop of move_files; ok: whether file.rename succeeds.
MoveFile ==
    /\ pc = "move_files"
    /\ \E file \in files, ok \in RenameOutcomes :
          LET target_folder == determine_target_folder(path_name(file), cfg.rules,
                                                       extension_map, Others)
              target_path == <<target_folder, path_name(file)>>
          IN /\ files' = files \ {file}
             /\ IF ~target_exists(fs, target_path)
                THEN IF ok /\ is_dir(fs, <<target_folder>>)
                     THEN /\ fs' = rename(fs, file, target_path)
                          /\ log' = log \cup {Line("info", "moved", file)}
                          /\ failures' = failures
                     ELSE /\ fs' = fs
                          /\ log' = log \cup {Line("error", "failed", file)}
                          /\ failures' = IF ok THEN failures ELSE failures + 1
                ELSE /\ fs' = fs
                     /\ log' = log \cup {Line("warning", "collision", file)}
                     /\ failures' = failures
    /\ UNCHANGED <<cfg, pc, run, folders, fs0, classified, fnVars>>

\* move_files returns; move_folders_based_on_content is entered.
EndMoveFiles ==
    /\ pc = "move_files"
    /\ files = {}
    /\ pc' = "move_folders"
    /\ UNCHANGED <<cfg, fs, run, files, folders, log, fs0, classified, failures, fnVars>>

\* The body of the loop of move_folders_based_on_content for one folder, on
\* file system f, given the classification computed and whether folder.rename
\* succeeds: the file system left, the line logged, whether an exception left
\* the loop (nothing in the loop catches one), whether a classification was
\* computed and whether a rename failed.
Step(f, level, event, entry, raised, was_classified, rename_failed) ==
    [fs |-> f, level |-> level, event |-> event, entry |-> entry, raised |-> raised,
     classified |-> was_classified, rename_failed |-> rename_failed]

move_folder_body(f, folder, categories, classification, ok) ==
    IF is_category_folder(folder, categories)
    THEN Step(f, "info", "category", folder, FALSE, FALSE, FALSE)
    ELSE IF classification = KeyError
    THEN Step(f, "error", "raised_classify", <<>>, TRUE, FALSE, FALSE)
    ELSE IF parent_name(folder) # classification
    THEN LET target_path == <<classification>>
             new_folder_path == <<classification, path_name(folder)>>
             made == IF exists(f, target_path) THEN f ELSE mkdir(f, target_path)
         IN IF is_file(f, target_path)
            THEN Step(f, "error", "raised_mkdir", <<>>, TRUE, TRUE, FALSE)
            ELSE IF ~target_exists(made, new_folder_path)
            THEN IF ok
                 THEN Step(rename(made, folder, new_folder_path),
                           "info", "moved", folder, FALSE, TRUE, FALSE)
                 ELSE Step(made, "error", "raised_rename", <<>>, TRUE, TRUE, TRUE)
            ELSE Step(made, "warning", "collision", folder, FALSE, TRUE, FALSE)
    ELSE Step(f, "info", "already", folder, FALSE, TRUE, FALSE)

\* One iteration of the loop of move_folders_based_on_content.  An exception
\* raised in it reaches the except clause of __main__, which logs it and ends
\* the run.
MoveFolder ==
    /\ pc = "move_folders"
    /\ \E folder \in next_folders(folders, all_categories), ok \in RenameOutcomes :
       \E classification \in
            (IF is_category_folder(folder, all_categories) THEN {None}
             ELSE classify_folder_by_content(children_of(fs, folder),
                                             extension_map, all_categories)) :
          LET r == move_folder_body(fs, folder, all_categories, classification, ok)
          IN /\ fs' = r.fs
             /\ log' = log \cup {Line(r.level, r.event, r.entry)}
             /\ pc' = IF r.raised THEN "aborted" ELSE pc
             /\ folders' = IF r.raised THEN folders ELSE folders \ {folder}
             /\ classified' =
                    IF r.classified
                    THEN [p \in DOMAIN classified \cup {folder} |->
                            IF p = folder THEN classification ELSE classified[p]]
                    ELSE classified
             /\ failures' = IF r.rename_failed THEN failures + 1 ELSE failures
    /\ UNCHANGED <<cfg, run, files, fs0, fnVars>>

\* logging.info("Files and folders have been organized.")
Finish ==
    /\ pc = "move_folders"
    /\ folders = {}
    /\ pc' = "done"
    /\ log' = log \cup {Line("info", "organized", <<>>)}
    /\ UNCHANGED <<cfg, fs, run, files, folders, fs0, classified, failures, fnVars>>

\* The program is started again on the directory the last run left.
Rerun ==
    /\ pc \in {"done", "aborted"}
    /\ run < MaxRuns
    /\ run' = run + 1
    /\ pc' = "start"
    /\ UNCHANGED <<cfg, fs, files, folders, log, fs0, classified, failures, fnVars>>

----------------------------------------------------------------------------
(* Working directories the run starts from *)

FsOf(entries) == [p \in {e[1] : e \in entries} |->
                    (CHOOSE e \in entries : e[1] = p)[2]]

Album == <<"Album">>
Mix == <<"Mix">>

TopFiles ==
    { <<"IMG_", "1", ".", "MP3">>, <<"a", ".", "mp3">>, <<"b", ".", "xyz">>, Documents }

AlbumTree ==
    { << <<Album>>, "dir" >>,
      << <<Album, <<"m1", ".", "mp3">> >>, "file" >>,
      << <<Album, <<"m2", ".", "mp3">> >>, "file" >>,
      << <<Album, <<"m3", ".", "MP3">> >>, "file" >>,
      << <<Album, <<"m4", ".", "mp3">> >>, "file" >>,
      << <<Album, <<"m5", ".", "mp3">> >>, "file" >>,
      << <<Album, <<"notes", ".", "txt">> >>, "file" >> }

MixTree ==
    { << <<Mix>>, "dir" >>,
      << <<Mix, <<"m1", ".", "mp3">> >>, "file" >>,
      << <<Mix, <<"m2", ".", "mp3">> >>, "file" >>,
      << <<Mix, <<"t1", ".", "txt">> >>, "file" >>,
      << <<Mix, <<"t2", ".", "txt">> >>, "file" >>,
      << <<Mix, <<"sub">> >>, "dir" >>,
      << <<Mix, <<"sub">>, <<"m6", ".", "mp3">> >>, "file" >> }

AudioTrees ==
    { {},
      { << <<Audio>>, "dir" >> },
      { << <<Audio>>, "dir" >>, << <<Audio, <<"a", ".", "mp3">> >>, "file" >> },
      { << <<Audio>>, "dir" >>, << <<Audio, Album>>, "dir" >>,
        << <<Audio, Album, <<"old", ".", "mp3">> >>, "file" >> },
      { << <<Audio>>, "dir" >>, << <<Audio, <<"a", ".", "mp3">> >>, "file" >>,
        << <<Audio, Album>>, "dir" >>,
        << <<Audio, Album, <<"old", ".", "mp3">> >>, "file" >> } }

InitialFileSystems ==
    { FsOf({<< <<n>>, "file" >> : n \in top} \cup album \cup mix \cup audio) :
        top \in SUBSET TopFiles,
        album \in {{}, AlbumTree},
        mix \in {{}, MixTree},
        audio \in AudioTrees }

Init ==
    /\ cfg = MainConfig
    /\ fs \in InitialFileSystems
    /\ pc = "start"
    /\ run = 1
    /\ files = {}
    /\ folders = {}
    /\ log = {}
    /\ fs0 = fs
    /\ classified = [p \in {} |-> None]
    /\ failures = 0
    /\ op = "none"
    /\ arg_name = <<>>
    /\ arg_children = {}
    /\ out = None

Next ==
    \/ GetFilesAndFolders
    \/ CreateFolders
    \/ MoveFile
    \/ EndMoveFiles
    \/ MoveFolder
    \/ Finish
    \/ Rerun

Spec == Init /\ [][Next]_vars

----------------------------------------------------------------------------
(* The classifiers applied to drawn inputs *)

InitFn ==
    /\ cfg \in Configs
    /\ \/ arg_name \in FileNames /\ arg_children = {}
       \/ arg_name = <<>> /\ arg_children \in FolderContents
    /\ op = "none"
    /\ out = None
    /\ fs = EmptyFs
    /\ pc = "off"
    /\ run = 0
    /\ files = {}
    /\ folders = {}
    /\ log = {}
    /\ fs0 = EmptyFs
    /\ classified = [p \in {} |-> None]
    /\ failures = 0

InitFnAny ==
    /\ cfg \in AnyConfigs
    /\ \/ arg_name \in FileNames /\ arg_children = {}
       \/ arg_name = <<>> /\ arg_children \in FolderContents
    /\ op = "none"
    /\ out = None
    /\ fs = EmptyFs
    /\ pc = "off"
    /\ run = 0
    /\ files = {}
    /\ folders = {}
    /\ log = {}
    /\ fs0 = EmptyFs
    /\ classified = [p \in {} |-> None]
    /\ failures = 0

ClassifyFile ==
    /\ op = "none"
    /\ arg_name # <<>>
    /\ op' = "classify_file"
    /\ out' = determine_target_folder(arg_name, cfg.rules, extension_map, Others)
    /\ UNCHANGED <<cfg, arg_name, arg_children, runVars>>

ClassifyFolder ==
    /\ op = "none"
    /\ arg_name = <<>>
    /\ op' = "classify_folder"
    /\ out' \in classify_folder_by_content(arg_children, extension_map, all_categories)
    /\ UNCHANGED <<cfg, arg_name, arg_children, runVars>>

NextFn == ClassifyFile \/ ClassifyFolder

SpecFn == InitFn /\ [][NextFn]_vars
SpecFnAny == InitFnAny /\ [][NextFn]_vars

----------------------------------------------------------------------------
(* Properties of the run *)

TopEntries(f) == iterdir(f, <<>>)
RunLines == {l \in log : l.run = run}
Outcomes == {"moved", "failed", "collision", "category", "already"}
HasOutcome(p) == \E l \in RunLines : l.entry = p /\ l.event \in Outcomes

\* p and all below it are the same in f and g.
SameTree(f, g, p) ==
    /\ subtree(f, p) = subtree(g, p)
    /\ \A q \in subtree(f, p) : f[q] = g[q]

\* The tree at src in g is the tree at dst in f.
MovedTree(f, g, src, dst) ==
    /\ subtree(f, dst) = {dst \o SubSeq(q, Len(src) + 1, Len(q)) : q \in subtree(g, src)}
    /\ \A q \in subtree(g, src) : f[dst \o SubSeq(q, Len(src) + 1, Len(q))] = g[q]

\* C1: a failure of the move of a single entry never aborts the run: when the
\* run has ended (and create_folders did not raise), every entry enumerated
\* at its start has reached an outcome: moved, skipped or failed.
C1_MoveFailureNeverAborts ==
    (/\ pc \in {"done", "aborted"}
     /\ ~\E l \in RunLines : l.event = "raised_create_folders")
    => \A p \in TopEntries(fs0) : HasOutcome(p)

\* The destination the run computes for top-level entry p once p was visited.
Visited(p) ==
    IF is_file(fs0, p) THEN HasOutcome(p) ELSE p \in DOMAIN classified
Destination(p) ==
    IF is_file(fs0, p)
    THEN <<determine_target_folder(path_name(p), cfg.rules, extension_map, Others),
           path_name(p)>>
    ELSE <<classified[p], path_name(p)>>

\* C2: collision safety: an entry whose destination <category>/<name> existed
\* when its move was attempted is still at its original location, the
\* destination is as it was, and a warning names the entry.
C2_CollisionSafety ==
    pc # "start" =>
        \A p \in TopEntries(fs0) :
            (Visited(p) /\ Destination(p) \in DOMAIN fs0) =>
                /\ SameTree(fs, fs0, p)
                /\ SameTree(fs, fs0, Destination(p))
                /\ \E l \in RunLines : l.entry = p /\ l.level = "warning"

C2_Witness ==
    /\ pc = "done"
    /\ \E l \in RunLines : l.event = "collision" /\ is_file(fs0, l.entry)
    /\ \E l \in RunLines : l.event = "collision" /\ is_dir(fs0, l.entry)

----------------------------------------------------------------------------
(* What the classifiers are to return, stated on the name itself *)

IsPrefix(pattern, s) ==
    \E k \in 0..Len(s) : pattern = [i \in 1..k |-> s[i]]

\* <<stem, extension>> of a name: the name is stem, a dot, extension; neither
\* part is empty and the extension holds no dot.
Splits(name) ==
    {<<[i \in 1..(k - 1) |-> name[i]], [i \in 1..(Len(name) - k) |-> name[k + i]]>> :
        k \in {k \in 2..(Len(name) - 1) :
                  name[k] = "." /\ \A j \in (k + 1)..Len(name) : name[j] # "."}}

StemOf(name) == IF Splits(name) = {} THEN name ELSE (CHOOSE sp \in Splits(name) : TRUE)[1]
ExtensionOf(name) == IF Splits(name) = {} THEN <<>> ELSE (CHOOSE sp \in Splits(name) : TRUE)[2]

\* The entries of the table whose extension set holds e, compared
\* case-insensitively.
TableEntriesFor(table, e) ==
    {i \in 1..Len(table) : \E x \in table[i].extensions : lower(x) = lower(e)}

ExpectedFileCategory(name, table, rules) ==
    LET matching == {i \in 1..Len(rules) :
                        \E j \in 1..Len(rules[i].patterns) :
                            IsPrefix(rules[i].patterns[j], StemOf(name))}
        entries == TableEntriesFor(table, ExtensionOf(name))
    IN IF matching # {}
       THEN rules[CHOOSE i \in matching : \A k \in matching : i <= k].folder
       ELSE IF entries # {} THEN table[CHOOSE i \in entries : TRUE].folder
       ELSE Others

\* The category more than half of the direct child files map to, else Others.
ExpectedFolderCategory(children, table) ==
    LET child_files == {c \in children : c.kind = "file"}
        count(i) == Cardinality({c \in child_files :
                                    i \in TableEntriesFor(table, ExtensionOf(c.name))})
        majority == {i \in 1..Len(table) : 2 * count(i) > Cardinality(child_files)}
    IN IF majority # {} THEN table[CHOOSE i \in majority : TRUE].folder ELSE Others

----------------------------------------------------------------------------
(* Properties of the run, continued *)

Clean(r) == \A l \in log : l.run = r => l.level = "info"

C4_FoldersRelocated ==
    (/\ pc \in {"done", "aborted"}
     /\ ~\E l \in RunLines : l.event = "raised_create_folders") =>
        \A p \in TopEntries(fs0) :
            (is_dir(fs0, p) /\ path_name(p) \notin all_categories) =>
                LET category == ExpectedFolderCategory(children_of(fs0, p), cfg.table)
                    dst == <<category, path_name(p)>>
                IN \/ dst \in DOMAIN fs0 /\ SameTree(fs, fs0, p)
                   \/ parent_name(p) = category /\ SameTree(fs, fs0, p)
                   \/ p \notin DOMAIN fs /\ MovedTree(fs, fs0, p, dst)

\* C8: once create_folders has run, it raised no error and a directory exists
\* for every category of the table, every filename-rule category and Others.
C8_CategoryDirectoriesExist ==
    pc \in {"move_files", "move_folders", "done", "aborted"} =>
        /\ ~\E l \in RunLines : l.event = "raised_create_folders"
        /\ \A c \in all_categories \cup {Others} : is_dir(fs, <<c>>)

\* C9: every file move attempt precedes the first folder classification, the
\* category computed for a folder is the classification of the direct
\* children it had when the run started, and no file the run moved lies in a
\* folder the run classified.
C9_FilesBeforeFolders ==
    pc # "start" =>
        /\ DOMAIN classified # {} =>
                \A p \in TopEntries(fs0) : is_file(fs0, p) => HasOutcome(p)
        /\ \A p \in DOMAIN classified :
                classified[p] \in classify_folder_by_content(children_of(fs0, p),
                                        extension_map, all_categories)
        /\ \A l \in RunLines :
                (l.event = "moved" /\ is_file(fs0, l.entry)) =>
                    <<Destination(l.entry)[1]>> \notin DOMAIN classified

C9_Witness ==
    /\ pc = "done"
    /\ \E l \in RunLines : l.event = "moved" /\ l.entry = << <<"a", ".", "mp3">> >>
    /\ <<Album>> \in DOMAIN classified /\ classified[<<Album>>] = Audio
    /\ <<Mix>> \in DOMAIN classified /\ classified[<<Mix>>] = Others
    /\ is_file(fs, <<Audio, Album, <<"notes", ".", "txt">> >>)

\* C10: conservation.  Every entry the run enumerated is, whole, either where
\* it was or at <category>/<name> for one category, never both; category
\* folders stay; what a category directory held stays as it was; nothing else
\* appears but category directories.
C10_Conservation ==
    LET cats == all_categories \cup {Others}
        category_dirs == {p \in TopEntries(fs0) :
                            is_dir(fs0, p) /\ path_name(p) \in all_categories}
    IN /\ \A p \in TopEntries(fs0) \ category_dirs :
            LET arrivals == {c \in cats : /\ <<c, path_name(p)>> \notin DOMAIN fs0
                                          /\ <<c, path_name(p)>> \in DOMAIN fs}
            IN \/ SameTree(fs, fs0, p) /\ arrivals = {}
               \/ /\ p \notin DOMAIN fs
                  /\ \E c \in arrivals :
                        arrivals = {c} /\ MovedTree(fs, fs0, p, <<c, path_name(p)>>)
       /\ \A p \in category_dirs :
            /\ is_dir(fs, p)
            /\ \A q \in iterdir(fs0, p) : SameTree(fs, fs0, q)
       /\ \A q \in DOMAIN fs :
            \/ q \in DOMAIN fs0
            \/ Len(q) = 1 /\ q[1] \in cats /\ fs[q] = "dir"
            \/ /\ Len(q) >= 2 /\ q[1] \in cats
               /\ <<q[2]>> \in TopEntries(fs0) \ category_dirs
               /\ <<q[2]>> \notin DOMAIN fs

C10_Witness ==
    /\ pc = "done"
    /\ is_file(fs, <<Photos, <<"IMG_", "1", ".", "MP3">> >>)
    /\ is_file(fs, <<Others, <<"b", ".", "xyz">> >>)
    /\ is_file(fs, <<Others, Mix, <<"sub">>, <<"m6", ".", "mp3">> >>)
    /\ is_dir(fs, <<Album>>) /\ is_file(fs, <<Audio, Album, <<"old", ".", "mp3">> >>)

----------------------------------------------------------------------------
(* Properties of the classifiers *)

\* C5: determine_target_folder returns the first filename-rule category one
\* of whose prefixes the stem starts with, whatever the extension; without a
\* matching rule, the category whose extension set holds the extension
\* (case-insensitively, without its dot), or Others when none does.
C5_FileClassification ==
    op = "classify_file" => out = ExpectedFileCategory(arg_name, cfg.table, cfg.rules)

\* A rule is preferred to a mapped extension, and an upper-case extension is
\* looked up in lower case.
C5_Witness ==
    /\ op = "classify_file"
    /\ cfg = TwoRulesSwappedConfig
    /\ arg_name = <<"IMG_", "a", ".", "MP3">>
    /\ out = Scans

C7_ClassifiersTotal ==
    op # "none" =>
        out \in combine_categories(cfg.table, cfg.rules) \cup {Others}

====
